---- MODULE Spec2Model ----
(***************************************************************************)
(* The Neighbor backend: POST /submitMember, GET /community, GET /health.  *)
(*                                                                         *)
(* The repository holds three revisions of server.js:                      *)
(*   "server.js"  src/server.js          name + email, no validation,      *)
(*                                       image {status,url} in the reply   *)
(*   "part_001"   src/unnamed/part_001   firstname + lastname + email,     *)
(*                                       original image stored as well     *)
(*   "part_002"   src/unnamed/part_002   name + email, image steps not     *)
(*                                       wrapped in their own try/catch    *)
(* One behaviour of the model runs one revision (variable rev).            *)
(*                                                                         *)
(* A JavaScript string is a sequence of one-character strings; undefined   *)
(* and null are the two one-element sequences Undefined and Null, whose    *)
(* element is not a character.  An async handler is a process whose pc     *)
(* names the collaborator call it awaits; an action runs the synchronous   *)
(* code between two awaits.                                                *)
(***************************************************************************)
EXTENDS Integers, Sequences, FiniteSets, TLC

(***************************************************************************)
(* Bounds of the model.                                                    *)
(***************************************************************************)
\* number of HTTP requests the server receives in one behaviour
NReq == 2
\* last value of the millisecond clock (Date.now(), created_at)
MaxClock == 1

(***************************************************************************)
(* JavaScript values and string functions.                                 *)
(***************************************************************************)
Undefined == <<"undefined">>
Null == <<"null">>

\* !v for the values the handlers test: undefined, null and "" are falsy
Falsy(v) == v \in {Undefined, Null, <<>>}

WhiteSpace == {" ", "\t", "\n"}

RECURSIVE TrimStart(_)
TrimStart(s) ==
  IF s # <<>> /\ Head(s) \in WhiteSpace THEN TrimStart(Tail(s)) ELSE s

RECURSIVE TrimEnd(_)
TrimEnd(s) ==
  IF s # <<>> /\ s[Len(s)] \in WhiteSpace
  THEN TrimEnd(SubSeq(s, 1, Len(s) - 1))
  ELSE s

\* String.prototype.trim
Trim(s) == TrimEnd(TrimStart(s))

\* v?.trim(): undefined stays undefined
OptionalTrim(v) == IF v = Undefined THEN Undefined ELSE Trim(v)

\* v || null
OrNull(v) == IF Falsy(v) THEN Null ELSE v

UpperCase == <<"A", "B", "C", "D", "E", "F", "G", "H", "I", "J", "K", "L", "M",
               "N", "O", "P", "Q", "R", "S", "T", "U", "V", "W", "X", "Y", "Z">>
LowerCase == <<"a", "b", "c", "d", "e", "f", "g", "h", "i", "j", "k", "l", "m",
               "n", "o", "p", "q", "r", "s", "t", "u", "v", "w", "x", "y", "z">>
Digits == <<"0", "1", "2", "3", "4", "5", "6", "7", "8", "9">>

LowerChar(c) ==
  IF \E i \in 1..26 : UpperCase[i] = c
  THEN LowerCase[CHOOSE i \in 1..26 : UpperCase[i] = c]
  ELSE c

\* String.prototype.toLowerCase
ToLowerCase(s) == [i \in 1..Len(s) |-> LowerChar(s[i])]

\* the character class [a-z0-9]
IsSlugChar(c) ==
  \/ \E i \in 1..26 : LowerCase[i] = c
  \/ \E i \in 1..10 : Digits[i] = c

\* s.replace(/[^a-z0-9]+/g, "-"): every maximal run of other characters
\* becomes one "-"
RECURSIVE ReplaceRuns(_, _)
ReplaceRuns(s, inRun) ==
  IF s = <<>> THEN <<>>
  ELSE IF IsSlugChar(Head(s)) THEN <<Head(s)>> \o ReplaceRuns(Tail(s), FALSE)
  ELSE IF inRun THEN ReplaceRuns(Tail(s), TRUE)
  ELSE <<"-">> \o ReplaceRuns(Tail(s), TRUE)

\* Slug with the pattern /[^a-z0-9]/g: every other character becomes a "-"
SlugEveryCharacter(s) ==
  [i \in 1..Len(s) |-> IF IsSlugChar(LowerChar(s[i])) THEN LowerChar(s[i]) ELSE "-"]

\* name.toLowerCase().replace(/[^a-z0-9]+/g, "-")
Slug(s) == ReplaceRuns(ToLowerCase(s), FALSE)

\* the decimal rendering of a number in a template literal
RECURSIVE DecimalString(_)
DecimalString(n) ==
  IF n < 10 THEN <<Digits[n + 1]>>
  ELSE DecimalString(n \div 10) \o <<Digits[(n % 10) + 1]>>

(***************************************************************************)
(* The collaborators' interfaces, as the handlers use them.                *)
(***************************************************************************)
Revisions == {"server.js", "part_001", "part_002"}

\* the bucket of supabase.storage.from("neighbors")
Bucket == <<"n", "e", "i", "g", "h", "b", "o", "r", "s">>

\* the two path prefixes of the bucket
CommunityPrefix == <<"c", "o", "m", "m", "u", "n", "i", "t", "y", "/">>
OriginalPrefix ==
  <<"o", "r", "i", "g", "i", "n", "a", "l", "_", "i", "m", "a", "g", "e", "_", "u", "r", "l", "/">>
PngSuffix == <<".", "p", "n", "g">>

\* supabase.storage.from(bucket).getPublicUrl(path).data.publicUrl: the
\* project URL (one token, set by the environment), the public object route,
\* the bucket and the path
PublicUrl(bucket, path) ==
  <<"SUPABASE_URL", "/", "o", "b", "j", "e", "c", "t", "/", "p", "u", "b", "l", "i", "c", "/">>
    \o bucket \o <<"/">> \o path

\* Math.random().toString(36).slice(2, 6): the values the model draws
RandomIds == {<<"k", "3", "x", "9">>, <<"q", "7", "a", "0">>}

\* error.message of a collaborator's error value or rejection
ErrorMessages == {"duplicate key value", "fetch failed"}

\* how an awaited collaborator call ends: it resolves with a result, resolves
\* with {error}, or rejects
Outcomes == {"ok", "error", "reject"}

\* openai.images.edit: resolves with b64_json, resolves without image data,
\* or rejects
GenerateOutcomes == {"ok", "nodata", "reject"}

(***************************************************************************)
(* The requests the model sends.                                           *)
(***************************************************************************)
Blank == <<" ">>
NameAda == <<" ", "A", "d", "a", " ", ".", "L", " ">>
FirstAda == <<" ", "A", "d", "a">>
LastL == <<"L", ".", " ">>
EmailAda == <<"a", "@", "x", " ">>
LocationNY == <<"N", "Y", " ">>
ActivitySki == <<" ", "s", "k", "i">>

\* the names of the check of the slug: every string of at most MaxNameLen
\* characters over letters of both cases, a digit, the separator, a dot, a
\* space and a letter outside ASCII
MaxNameLen == 3
NameAlphabet == {"A", "b", "7", "-", ".", " ", "\\u00e9"}
Names == UNION {[1..n -> NameAlphabet] : n \in 0..MaxNameLen}
LastNames == {<<"L">>, <<".">>, <<"-">>}

NamedBodies ==
  {[name |-> n, firstname |-> n, lastname |-> l, email |-> EmailAda,
    location |-> Undefined, activity |-> Undefined] : n \in Names, l \in LastNames}

Bodies ==
  { [name |-> NameAda, firstname |-> FirstAda, lastname |-> LastL, email |-> EmailAda,
     location |-> Undefined, activity |-> ActivitySki],
    [name |-> NameAda, firstname |-> FirstAda, lastname |-> LastL, email |-> EmailAda,
     location |-> LocationNY, activity |-> Blank],
    [name |-> Undefined, firstname |-> Undefined, lastname |-> LastL, email |-> EmailAda,
     location |-> Undefined, activity |-> Undefined],
    [name |-> Blank, firstname |-> FirstAda, lastname |-> Blank, email |-> EmailAda,
     location |-> Blank, activity |-> Undefined],
    [name |-> NameAda, firstname |-> FirstAda, lastname |-> LastL, email |-> Undefined,
     location |-> Undefined, activity |-> Undefined],
    [name |-> NameAda, firstname |-> FirstAda, lastname |-> LastL, email |-> Blank,
     location |-> Undefined, activity |-> Undefined] }

NoBody ==
  [name |-> Undefined, firstname |-> Undefined, lastname |-> Undefined, email |-> Undefined,
   location |-> Undefined, activity |-> Undefined]

(***************************************************************************)
(* State.                                                                  *)
(***************************************************************************)
VARIABLES
  rev,     \* the revision of server.js that runs
  now,     \* the clock: Date.now() of the server, now() of the database
  req,     \* req[r]: request r, its handler's locals and its response
  db,      \* the rows of community_members, in insertion order
  blobs,   \* the paths stored in the bucket
  proc     \* the server process: its environment and how far it has started

vars == <<rev, now, req, db, blobs, proc>>

Requests == 1..NReq

\* res before anything was sent
NoResponse ==
  [sent |-> FALSE, sends |-> 0, status |-> 0, shape |-> "none", keys |-> {}, ok |-> FALSE,
   image |-> [status |-> "none", url |-> Null], error |-> "", data |-> <<>>]

\* how many times a handler has called each collaborator, and how each call
\* ended ("" while it has not)
NoCalls == [generate |-> 0, original |-> 0, upload |-> 0, insert |-> 0, select |-> 0]
NoOutcomes == [generate |-> "", original |-> "", upload |-> "", insert |-> "", select |-> ""]

\* answered: the submissions already answered ok:true when the request
\* arrived; queryError: error.message the listing query ended with
\* prompt: the prompt given to openai.images.edit
\* slug: the slug the handler computed for its paths
IdleRequest ==
  [kind |-> "none", body |-> NoBody, file |-> FALSE, pc |-> "idle",
   imageStatus |-> "none", imageUrl |-> Null, originalImageUrl |-> Null,
   originalFilePath |-> <<>>, filePath |-> <<>>,
   calls |-> NoCalls, outcome |-> NoOutcomes, row |-> 0, res |-> NoResponse,
   answered |-> {}, queryError |-> "", prompt |-> <<>>,
   slug |-> <<>>]

(***************************************************************************)
(* POST /submitMember: the synchronous pieces of the handler.              *)
(***************************************************************************)
\* the trimmed fields of a request (const name = req.body.name?.trim() ...)
Name(q) == OptionalTrim(q.body.name)
FirstName(q) == OptionalTrim(q.body.firstname)
LastName(q) == OptionalTrim(q.body.lastname)
Email(q) == OptionalTrim(q.body.email)
Location(q) == OrNull(OptionalTrim(q.body.location))
Activity(q) == OrNull(OptionalTrim(q.body.activity))

\* the validation of the required fields; server.js has none
MissingRequired(rv, q) ==
  CASE rv = "part_001" -> Falsy(FirstName(q)) \/ Falsy(LastName(q)) \/ Falsy(Email(q))
    [] rv = "part_002" -> Falsy(Name(q)) \/ Falsy(Email(q))
    [] OTHER -> FALSE

\* res.status(status).json({...}) once more on the same response
Send(res, status, shape, keys) ==
  [res EXCEPT !.sent = TRUE, !.sends = @ + 1, !.status = status, !.shape = shape,
              !.keys = keys]

\* BadRequest without the return: the 400 is sent and the handler goes on to
\* the insert
BadRequestGoesOn(rv, q) ==
  [q EXCEPT !.pc = "await_insert", !.calls.insert = @ + 1,
            !.res = [Send(q.res, 400, "object", {"error"}) EXCEPT
                       !.error = IF rv = "part_001"
                                 THEN "Missing firstname, lastname, or email"
                                 ELSE "Missing name or email"]]

\* return res.status(400).json({ error: "Missing ..." })
BadRequest(rv, q) ==
  [q EXCEPT !.pc = "done",
            !.res = [Send(q.res, 400, "object", {"error"}) EXCEPT
                       !.error = IF rv = "part_001"
                                 THEN "Missing firstname, lastname, or email"
                                 ELSE "Missing name or email"]]

\* Success reporting status "ready" for every submission with a photo
SuccessReportsReady(rv, q) ==
  [q EXCEPT !.pc = "done",
            !.res = IF rv = "server.js"
                    THEN [Send(q.res, 200, "object", {"ok", "image"}) EXCEPT
                            !.ok = TRUE,
                            !.image = [status |-> IF q.file THEN "ready" ELSE "none",
                                       url |-> q.imageUrl]]
                    ELSE [Send(q.res, 200, "object", {"ok"}) EXCEPT !.ok = TRUE]]

\* res.json({ ok: true }), with image: {status, url} in server.js
Success(rv, q) ==
  [q EXCEPT !.pc = "done",
            !.res = IF rv = "server.js"
                    THEN [Send(q.res, 200, "object", {"ok", "image"}) EXCEPT
                            !.ok = TRUE,
                            !.image = [status |-> q.imageStatus, url |-> q.imageUrl]]
                    ELSE [Send(q.res, 200, "object", {"ok"}) EXCEPT !.ok = TRUE]]

\* the text the outer catch puts in the body of its 500
ServerErrorText(rv, message) ==
  CASE rv = "server.js" -> "Internal Server Error."
    [] rv = "part_001" -> "server error while processing submission"
    [] OTHER -> message

\* the outer catch (err): res.status(500).json({ error: ... })
OuterCatch(rv, q, message) ==
  [q EXCEPT !.pc = "done",
            !.res = [Send(q.res, 500, "object", {"error"}) EXCEPT
                       !.error = ServerErrorText(rv, message)]]

\* await supabase.from("community_members").insert([...]) is called
CallInsert(q) ==
  [q EXCEPT !.pc = "await_insert", !.calls.insert = @ + 1]

\* the literal parts of the prompts; a line continuation inside a JavaScript
\* string keeps the indentation of the next line
BaselinePrompt(rv) ==
  IF rv = "part_001"
  THEN <<"Using the provided photo as reference, create an original baby character for the comic strip ",
         "  'Peanuts'. They are standing up (from hair to toe in frame), no background, and they should not have facial hair. Leave clear margin around the character's silhouette, with at least 20 pixels from the highest-point of their hair, and 20 below the lowest point of their feet. Make sure that their skin color is solid ",
         "      COMPOSITION RULES (CRITICAL):",
         "- Full body visible with generous empty space around the character",
         "- Character appears small-to-medium scale in the canvas",
         "- Clear space above the head and below the feet",
         "- Do not zoom in",
         "- Do not crop any part of the character",
         "- Character centered with visible breathing room on all sides",
         "STYLE RULES:",
         "- Solid opaque skin color",
         "- Clean cartoon shading",
         "- No facial hair">>
  ELSE <<"Using the provided photo as reference, create an original baby character for the comic strip ",
         "  'Peanuts'. They are standing up, the background is white, and they should not have facial hair.">>

ExtendedHead(rv) ==
  IF rv = "part_001"
  THEN <<"Using the provided photo as reference, create an original baby character for the comic strip 'Peanuts'. They are ",
         "  standing up (from head to toe in frame), with no background, and they should not have facial hair. They should clearly be doing the following activity: ">>
  ELSE <<"Using the provided photo as reference, create an original baby character for the comic strip 'Peanuts'. They are ",
         "  standing up, the background is white, and they should not have facial hair. They are doing the following activity: ">>

ExtendedTail(rv) ==
  IF rv = "part_001"
  THEN <<". Leave clear margin around the character's silhouette (including top of hair and bottom of feet).">>
  ELSE <<".">>

\* PIXEL_PROMPT of part_002
PIXEL_PROMPT ==
  <<"\n", "Using the provided photo as reference, create an original baby character", "\n",
    "for the comic strip \"Peanuts\". They are standing up, the background is white,", "\n",
    "and they should not have facial hair.", "\n">>

\* getPrompt with return of the baseline template on both branches
GetPromptBaselineOnly(rv, activity) == BaselinePrompt(rv)

\* function getPrompt(activity) of server.js and part_001
GetPrompt(rv, activity) ==
  IF Falsy(activity) THEN BaselinePrompt(rv)
  ELSE ExtendedHead(rv) \o activity \o ExtendedTail(rv)

\* const PROMPT = getPrompt(activity); part_002 has the constant PIXEL_PROMPT
Prompt(rv, q) ==
  CASE rv = "server.js" -> GetPrompt(rv, OptionalTrim(q.body.activity))
    [] rv = "part_001" -> GetPrompt(rv, Activity(q))
    [] OTHER -> PIXEL_PROMPT

\* await openai.images.edit({...}) is called (toFile has resolved)
CallGenerate(rv, q) ==
  [q EXCEPT !.pc = "await_generate", !.calls.generate = @ + 1, !.prompt = Prompt(rv, q)]

\* await supabase.storage.from("neighbors").upload(filePath, buffer, ...)
CallUpload(q, path) ==
  [q EXCEPT !.pc = "await_upload", !.calls.upload = @ + 1, !.filePath = path]

\* await supabase.storage.from("neighbors").upload(originalFilePath, ...)
CallOriginalUpload(q, path) ==
  [q EXCEPT !.pc = "await_original_upload", !.calls.original = @ + 1,
            !.originalFilePath = path]

\* ImageError with a catch that calls openai.images.edit once more before it
\* gives up
ImageErrorRetriesGenerate(rv, q, message) ==
  IF q.calls.generate < 2 THEN CallGenerate(rv, q)
  ELSE CASE rv = "server.js" ->
              CallInsert([q EXCEPT !.imageStatus = "failed", !.imageUrl = Null])
         [] rv = "part_001" -> CallInsert([q EXCEPT !.imageUrl = Null])
         [] OTHER -> OuterCatch(rv, q, message)

\* an error thrown in the image steps: the catch (imageError) of server.js and
\* part_001 records the failure and goes on to the insert; part_002 has no
\* such catch and the error reaches the outer catch
ImageError(rv, q, message) ==
  CASE rv = "server.js" ->
         CallInsert([q EXCEPT !.imageStatus = "failed", !.imageUrl = Null])
    [] rv = "part_001" -> CallInsert([q EXCEPT !.imageUrl = Null])
    [] OTHER -> OuterCatch(rv, q, message)

\* safeNameSlug of part_001
SafeNameSlug(q) == Slug(FirstName(q) \o <<"-">> \o LastName(q))

\* const slug / const safeNameSlug is computed
WithSlug(rv, q) ==
  [q EXCEPT !.slug = IF rv = "part_001" THEN SafeNameSlug(q) ELSE Slug(Name(q))]

\* originalFilePath of part_001
OriginalFilePath(q, time) ==
  OriginalPrefix \o DecimalString(time) \o <<"-">> \o SafeNameSlug(q) \o PngSuffix

\* filePath of the generated image
FilePath(rv, q, time, id) ==
  CASE rv = "server.js" -> CommunityPrefix \o Slug(Name(q)) \o <<"-">> \o id \o PngSuffix
    [] rv = "part_001" ->
         CommunityPrefix \o DecimalString(time) \o <<"-">> \o SafeNameSlug(q) \o PngSuffix
    [] OTHER ->
         CommunityPrefix \o DecimalString(time) \o <<"-">> \o Slug(Name(q)) \o PngSuffix

\* Row with imageUrl a variable of the module, shared by the requests, in
\* place of the let of the handler
RowSharedImageUrl(rv, q) ==
  IF rv = "part_001"
  THEN [name |-> Undefined, firstname |-> FirstName(q), lastname |-> LastName(q),
        email |-> Email(q), location |-> Location(q), activity |-> Activity(q),
        image_url |-> req[1].imageUrl, original_image_url |-> q.originalImageUrl]
  ELSE [name |-> Name(q), firstname |-> Undefined, lastname |-> Undefined,
        email |-> Email(q), location |-> Undefined, activity |-> Undefined,
        image_url |-> req[1].imageUrl, original_image_url |-> Undefined]

\* the row given to insert([...]); a key whose value is undefined, and a
\* column the revision does not have, is Undefined
Row(rv, q) ==
  IF rv = "part_001"
  THEN [name |-> Undefined, firstname |-> FirstName(q), lastname |-> LastName(q),
        email |-> Email(q), location |-> Location(q), activity |-> Activity(q),
        image_url |-> q.imageUrl, original_image_url |-> q.originalImageUrl]
  ELSE [name |-> Name(q), firstname |-> Undefined, lastname |-> Undefined,
        email |-> Email(q), location |-> Undefined, activity |-> Undefined,
        image_url |-> q.imageUrl, original_image_url |-> Undefined]

\* SubmitStart with if (req.file) dropped: the image steps run for every
\* valid submission
SubmitStartAlwaysImage(rv, q, time) ==
  IF MissingRequired(rv, q) THEN BadRequest(rv, q)
  ELSE CASE rv = "server.js" -> CallGenerate(rv, [q EXCEPT !.imageStatus = "processing"])
         [] rv = "part_001" -> CallOriginalUpload(WithSlug(rv, q), OriginalFilePath(q, time))
         [] OTHER -> CallGenerate(rv, q)

\* the handler from its first line to its first await or response
SubmitStart(rv, q, time) ==
  IF MissingRequired(rv, q) THEN BadRequest(rv, q)
  ELSE IF ~q.file THEN CallInsert(q)
  ELSE CASE rv = "server.js" -> CallGenerate(rv, [q EXCEPT !.imageStatus = "processing"])
         [] rv = "part_001" -> CallOriginalUpload(WithSlug(rv, q), OriginalFilePath(q, time))
         [] OTHER -> CallGenerate(rv, q)

\* after the original upload resolved: originalUploadError is logged, a
\* rejection is caught by catch (imageError)
AfterOriginalUpload(rv, q, outcome, message) ==
  CASE outcome = "ok" ->
         CallGenerate(rv, [q EXCEPT !.originalImageUrl = PublicUrl(Bucket, q.originalFilePath)])
    [] outcome = "error" -> CallGenerate(rv, q)
    [] OTHER -> ImageError(rv, q, message)

\* AfterGenerate starting the upload and the insert together, as in
\* Promise.all([upload, insert])
AfterGenerateFanOut(rv, q, outcome, message, time, id) ==
  CASE outcome = "ok" ->
         IF rv = "server.js" /\ Name(q) = Undefined
         THEN ImageError(rv, q, "Cannot read properties of undefined (reading 'toLowerCase')")
         ELSE CallUpload(CallInsert(WithSlug(rv, q)), FilePath(rv, q, time, id))
    [] outcome = "nodata" ->
         IF rv = "part_002"
         THEN ImageError(rv, q, "Cannot read properties of undefined (reading 'b64_json')")
         ELSE ImageError(rv, q, "OpenAI returned no image data")
    [] OTHER -> ImageError(rv, q, message)

\* after openai.images.edit resolved
AfterGenerate(rv, q, outcome, message, time, id) ==
  CASE outcome = "ok" ->
         IF rv = "server.js" /\ Name(q) = Undefined
         THEN ImageError(rv, q, "Cannot read properties of undefined (reading 'toLowerCase')")
         ELSE CallUpload(WithSlug(rv, q), FilePath(rv, q, time, id))
    [] outcome = "nodata" ->
         IF rv = "part_002"
         THEN ImageError(rv, q, "Cannot read properties of undefined (reading 'b64_json')")
         ELSE ImageError(rv, q, "OpenAI returned no image data")
    [] OTHER -> ImageError(rv, q, message)

\* AfterUpload with imageUrl = filePath in place of data.publicUrl
AfterUploadStoresPath(rv, q, outcome, message) ==
  IF outcome = "ok"
  THEN CallInsert([q EXCEPT !.imageUrl = q.filePath,
                            !.imageStatus = IF rv = "server.js" THEN "ready" ELSE @])
  ELSE ImageError(rv, q, message)

\* after the upload of the generated image resolved
AfterUpload(rv, q, outcome, message) ==
  IF outcome = "ok"
  THEN CallInsert([q EXCEPT !.imageUrl = PublicUrl(Bucket, q.filePath),
                            !.imageStatus = IF rv = "server.js" THEN "ready" ELSE @])
  ELSE ImageError(rv, q, message)

\* AfterInsert without if (dbError) throw dbError: an error value is ignored
AfterInsertIgnoresError(rv, q, outcome, message, rowNumber) ==
  IF outcome \in {"ok", "error"}
  THEN Success(rv, [q EXCEPT !.row = IF outcome = "ok" THEN rowNumber ELSE 0])
  ELSE OuterCatch(rv, q, message)

\* after the insert resolved: if (dbError) throw dbError, else res.json
AfterInsert(rv, q, outcome, message, rowNumber) ==
  IF outcome = "ok"
  THEN Success(rv, [q EXCEPT !.row = rowNumber])
  ELSE OuterCatch(rv, q, message)

(***************************************************************************)
(* GET /community and GET /health.                                         *)
(***************************************************************************)
\* the row as the table stores it: created_at is set by the database
StoredRow(row, time) == row @@ [created_at |-> time]

\* .select("name,email,image_url,created_at") and, in part_001,
\* .select("firstname,lastname,email,location,activity,image_url,
\* original_image_url,created_at")
Select(rv, row) ==
  IF rv = "part_001"
  THEN [name |-> Undefined, firstname |-> row.firstname, lastname |-> row.lastname,
        email |-> row.email, location |-> row.location, activity |-> row.activity,
        image_url |-> row.image_url, original_image_url |-> row.original_image_url,
        created_at |-> row.created_at]
  ELSE [name |-> row.name, firstname |-> Undefined, lastname |-> Undefined,
        email |-> row.email, location |-> Undefined, activity |-> Undefined,
        image_url |-> row.image_url, original_image_url |-> Undefined,
        created_at |-> row.created_at]

RowOrders(n) ==
  {f \in [1..n -> 1..n] : \A i, j \in 1..n : i # j => f[i] # f[j]}

\* OrderByCreatedAt with { ascending: true }
OrderByCreatedAtAscending(rows) ==
  {[i \in 1..Len(rows) |-> rows[f[i]]] : f \in
     {g \in RowOrders(Len(rows)) :
        \A i, j \in 1..Len(rows) :
          i < j => rows[g[i]].created_at <= rows[g[j]].created_at}}

\* .order("created_at", { ascending: false }): the orders the database may
\* return the rows in (rows of equal created_at come in any order)
OrderByCreatedAt(rows) ==
  {[i \in 1..Len(rows) |-> rows[f[i]]] : f \in
     {g \in RowOrders(Len(rows)) :
        \A i, j \in 1..Len(rows) :
          i < j => rows[g[i]].created_at >= rows[g[j]].created_at}}

\* CommunityQuery with .limit(1): only the first row of the order
CommunityQueryFirstPage(rv, rows) ==
  {SubSeq(data, 1, IF Len(data) > 0 THEN 1 ELSE 0) : data \in OrderByCreatedAt([i \in 1..Len(rows) |-> Select(rv, rows[i])])}

\* the result sets of the query of GET /community on the table
CommunityQuery(rv, rows) ==
  OrderByCreatedAt([i \in 1..Len(rows) |-> Select(rv, rows[i])])

\* await supabase.from("community_members").select(...).order(...) is called
CallSelect(q) ==
  [q EXCEPT !.pc = "await_select", !.calls.select = @ + 1]

\* AfterSelect answering a failed query as POST /submitMember answers a
\* failed insert: with a fixed text in place of error.message
AfterSelectGenericError(rv, q, outcome, message, data) ==
  CASE outcome = "ok" ->
         [q EXCEPT !.pc = "done",
                   !.res = [Send(q.res, 200, "array", {}) EXCEPT !.data = data]]
    [] outcome = "error" ->
         [q EXCEPT !.pc = "done",
                   !.res = [Send(q.res, 500, "object", {"error"}) EXCEPT
                              !.error = "Internal Server Error."]]
    [] OTHER -> [q EXCEPT !.pc = "unhandled"]

\* after the query resolved: 500 with error.message, or res.json(data); a
\* rejection is caught by nothing and the handler ends without a response
AfterSelect(rv, q, outcome, message, data) ==
  CASE outcome = "ok" ->
         [q EXCEPT !.pc = "done",
                   !.res = [Send(q.res, 200, "array", {}) EXCEPT !.data = data]]
    [] outcome = "error" ->
         [q EXCEPT !.pc = "done",
                   !.res = [Send(q.res, 500, "object", {"error"}) EXCEPT !.error = message]]
    [] OTHER -> [q EXCEPT !.pc = "unhandled"]

\* app.get("/health", (_, res) => {res.json({ ok: true })})
Health(q) ==
  [q EXCEPT !.pc = "done",
            !.res = [Send(q.res, 200, "object", {"ok"}) EXCEPT !.ok = TRUE]]

(***************************************************************************)
(* Initial state and actions.                                              *)
(***************************************************************************)
\* the configuration values the server reads from process.env
ConfigKeys ==
  {"PORT", "CORS_ORIGIN", "OPENAI_API_KEY", "OPENAI_IMAGE_MODEL", "SUPABASE_URL",
   "SUPABASE_SERVICE_ROLE_KEY"}

\* where a value is defined: in the environment the process is started with,
\* in the .env file, or nowhere
ConfigSources == {"shell", "dotenv", "absent"}

\* the top-level statements of the file that read configuration, in the order
\* in which they run
StartupSteps(rv) ==
  IF rv = "server.js"
  THEN <<"cors", "dotenv", "openai", "supabase", "listen">>
  ELSE <<"dotenv", "cors", "openai", "supabase", "listen">>

\* the process before its first statement, for a given configuration;
\* environ: the keys defined in process.env; loaded: dotenv has run; early:
\* the keys read before dotenv ran; corsOrigin: the origin cors() was given
NewProcess(config) ==
  [state |-> "starting", step |-> 1, config |-> config,
   environ |-> {k \in ConfigKeys : config[k] = "shell"},
   loaded |-> FALSE, early |-> {}, corsOrigin |-> "unread"]

\* process.env.KEY is read for each key of keys
ReadEnv(p, keys) ==
  [p EXCEPT !.early = IF p.loaded THEN @ ELSE @ \cup keys]

NextStatement(p) == [p EXCEPT !.step = @ + 1]

\* app.use(cors({ origin: process.env.CORS_ORIGIN }))
UseCorsStep(p) ==
  NextStatement([ReadEnv(p, {"CORS_ORIGIN"}) EXCEPT
                   !.corsOrigin = IF "CORS_ORIGIN" \in p.environ THEN "defined"
                                  ELSE "undefined"])

\* require("dotenv").config(): the keys of .env not yet in process.env are
\* added to it
LoadDotenvStep(p) ==
  NextStatement([p EXCEPT !.loaded = TRUE,
                          !.environ = @ \cup {k \in ConfigKeys : p.config[k] = "dotenv"}])

\* a client constructor given keys: whether it throws for an undefined
\* argument is the library's choice, so both are possible; with every
\* argument defined it returns
ConstructClient(p, keys, throws) ==
  IF throws THEN [ReadEnv(p, keys) EXCEPT !.state = "exited"]
  ELSE NextStatement(ReadEnv(p, keys))

MayThrow(p, keys) == IF keys \subseteq p.environ THEN {FALSE} ELSE BOOLEAN

\* app.listen(process.env.PORT, ...): listen(undefined) binds a port the
\* operating system picks
ListenStep(p) ==
  [ReadEnv(p, {"PORT"}) EXCEPT !.state = "listening"]

\* the process that serves the requests: every value is defined in the
\* environment it was started with
ServingProcess(rv) ==
  [state |-> "listening", step |-> Len(StartupSteps(rv)),
   config |-> [k \in ConfigKeys |-> "shell"], environ |-> ConfigKeys,
   loaded |-> TRUE, early |-> IF rv = "server.js" THEN {"CORS_ORIGIN"} ELSE {},
   corsOrigin |-> "defined"]

\* community_members outlives the process: when the server starts the table
\* is empty or holds a row an earlier run inserted (here the row of the first
\* of Bodies, sent without a photo)
EarlierRequest ==
  [IdleRequest EXCEPT !.kind = "submitMember",
                      !.body = [name |-> NameAda, firstname |-> FirstAda, lastname |-> LastL,
                                email |-> EmailAda, location |-> Undefined,
                                activity |-> ActivitySki]]

InitialTables(rv) == {<<>>, <<StoredRow(Row(rv, EarlierRequest), 0)>>}

Init ==
  /\ rev \in Revisions
  /\ now = 0
  /\ req = [r \in Requests |-> IdleRequest]
  /\ db \in InitialTables(rev)
  /\ blobs = {}
  /\ proc = ServingProcess(rev)

\* requests are numbered in the order in which the server receives them; a
\* request is received by a process that listens
MayArrive(r) ==
  /\ proc.state = "listening"
  /\ req[r].pc = "idle"
  /\ IF r = 1 THEN TRUE ELSE req[r - 1].pc # "idle"

\* the ids Math.random() may give; the other revisions draw none
Ids == IF rev = "server.js" THEN RandomIds ELSE {<<>>}

ReceiveSubmit(r) ==
  /\ MayArrive(r)
  /\ \E body \in Bodies, file \in BOOLEAN :
       req' = [req EXCEPT ![r] =
                 SubmitStart(rev, [@ EXCEPT !.kind = "submitMember", !.body = body,
                                            !.file = file], now)]
  /\ UNCHANGED <<proc, rev, now, db, blobs>>

\* upload(path, ...) is called without the upsert option: the bucket refuses
\* a path it already holds, so such an upload does not resolve successfully
OriginalUploadResolves(r) ==
  /\ req[r].pc = "await_original_upload"
  /\ \E outcome \in Outcomes, message \in ErrorMessages :
       /\ req' = [req EXCEPT ![r] =
                   AfterOriginalUpload(rev, [@ EXCEPT !.outcome.original = outcome],
                                       outcome, message)]
       /\ outcome = "ok" => req[r].originalFilePath \notin blobs
       /\ blobs' = IF outcome = "ok" THEN blobs \cup {req[r].originalFilePath} ELSE blobs
  /\ UNCHANGED <<proc, rev, now, db>>

GenerateResolves(r) ==
  /\ req[r].pc = "await_generate"
  /\ \E outcome \in GenerateOutcomes, message \in ErrorMessages, id \in Ids :
       req' = [req EXCEPT ![r] =
                 AfterGenerate(rev, [@ EXCEPT !.outcome.generate = outcome],
                               outcome, message, now, id)]
  /\ UNCHANGED <<proc, rev, now, db, blobs>>

UploadResolves(r) ==
  /\ req[r].pc = "await_upload"
  /\ \E outcome \in Outcomes, message \in ErrorMessages :
       /\ req' = [req EXCEPT ![r] =
                   AfterUpload(rev, [@ EXCEPT !.outcome.upload = outcome], outcome, message)]
       /\ outcome = "ok" => req[r].filePath \notin blobs
       /\ blobs' = IF outcome = "ok" THEN blobs \cup {req[r].filePath} ELSE blobs
  /\ UNCHANGED <<proc, rev, now, db>>

\* BlobsAfterInsert with a catch that calls storage.remove([...]) on the
\* images of the request when the insert failed
BlobsAfterInsertCleansUp(stored, q, outcome) ==
  IF outcome = "ok" THEN stored ELSE stored \ {q.filePath, q.originalFilePath}

\* the bucket after the insert resolved: if (dbError) throw dbError and the
\* outer catch call nothing of supabase.storage
BlobsAfterInsert(stored, q, outcome) == stored

\* insert([row]) as an update of the latest row of the table
InsertRowReplacesLatest(table, row) ==
  IF table = <<>> THEN <<row>> ELSE [table EXCEPT ![Len(table)] = row]

\* the effect of .insert([row]) on community_members: one more row
InsertRow(table, row) == Append(table, row)

InsertResolves(r) ==
  /\ req[r].pc = "await_insert"
  /\ \E outcome \in Outcomes, message \in ErrorMessages :
       /\ req' = [req EXCEPT ![r] =
                   AfterInsert(rev, [@ EXCEPT !.outcome.insert = outcome], outcome, message,
                               Len(db) + 1)]
       /\ db' = IF outcome = "ok"
                THEN InsertRow(db, StoredRow(Row(rev, req[r]), now))
                ELSE db
       /\ blobs' = BlobsAfterInsert(blobs, req[r], outcome)
  /\ UNCHANGED <<proc, rev, now>>

ReceiveCommunity(r) ==
  /\ MayArrive(r)
  /\ req' = [req EXCEPT ![r] =
              CallSelect([@ EXCEPT !.kind = "community",
                                   !.answered = {s \in Requests :
                                                   /\ req[s].kind = "submitMember"
                                                   /\ req[s].res.sent /\ req[s].res.ok}])]
  /\ UNCHANGED <<proc, rev, now, db, blobs>>

SelectResolves(r) ==
  /\ req[r].pc = "await_select"
  /\ \E outcome \in Outcomes, message \in ErrorMessages, data \in CommunityQuery(rev, db) :
       req' = [req EXCEPT ![r] =
                 AfterSelect(rev, [@ EXCEPT !.outcome.select = outcome,
                                            !.queryError = IF outcome = "ok" THEN "" ELSE message],
                             outcome, message, data)]
  /\ UNCHANGED <<proc, rev, now, db, blobs>>

ReceiveHealth(r) ==
  /\ MayArrive(r)
  /\ req' = [req EXCEPT ![r] = Health([@ EXCEPT !.kind = "health"])]
  /\ UNCHANGED <<proc, rev, now, db, blobs>>

\* a millisecond passes
Tick ==
  /\ now < MaxClock
  /\ now' = now + 1
  /\ UNCHANGED <<proc, rev, req, db, blobs>>

Next ==
  \/ \E r \in Requests : ReceiveSubmit(r)
  \/ \E r \in Requests : OriginalUploadResolves(r)
  \/ \E r \in Requests : GenerateResolves(r)
  \/ \E r \in Requests : UploadResolves(r)
  \/ \E r \in Requests : InsertResolves(r)
  \/ \E r \in Requests : ReceiveCommunity(r)
  \/ \E r \in Requests : SelectResolves(r)
  \/ \E r \in Requests : ReceiveHealth(r)
  \/ Tick

Spec == Init /\ [][Next]_vars

(***************************************************************************)
(* One submission with a photo, for every name of Names.                   *)
(***************************************************************************)
ReceiveNamedSubmit ==
  /\ MayArrive(1)
  /\ \E body \in NamedBodies :
       req' = [req EXCEPT ![1] =
                 SubmitStart(rev, [@ EXCEPT !.kind = "submitMember", !.body = body,
                                            !.file = TRUE], now)]
  /\ UNCHANGED <<proc, rev, now, db, blobs>>

NextSlug ==
  \/ ReceiveNamedSubmit
  \/ OriginalUploadResolves(1)
  \/ GenerateResolves(1)
  \/ UploadResolves(1)
  \/ InsertResolves(1)

SpecSlug == Init /\ [][NextSlug]_vars

(***************************************************************************)
(* The start of the process: the top-level statements of the file, for     *)
(* every configuration.                                                    *)
(***************************************************************************)
AtStep(kind) ==
  /\ proc.state = "starting"
  /\ StartupSteps(rev)[proc.step] = kind

UseCors ==
  /\ AtStep("cors")
  /\ proc' = UseCorsStep(proc)
  /\ UNCHANGED <<rev, now, req, db, blobs>>

LoadDotenv ==
  /\ AtStep("dotenv")
  /\ proc' = LoadDotenvStep(proc)
  /\ UNCHANGED <<rev, now, req, db, blobs>>

NewOpenAI ==
  /\ AtStep("openai")
  /\ \E throws \in MayThrow(proc, {"OPENAI_API_KEY"}) :
       proc' = ConstructClient(proc, {"OPENAI_API_KEY"}, throws)
  /\ UNCHANGED <<rev, now, req, db, blobs>>

CreateClient ==
  /\ AtStep("supabase")
  /\ \E throws \in MayThrow(proc, {"SUPABASE_URL", "SUPABASE_SERVICE_ROLE_KEY"}) :
       proc' = ConstructClient(proc, {"SUPABASE_URL", "SUPABASE_SERVICE_ROLE_KEY"}, throws)
  /\ UNCHANGED <<rev, now, req, db, blobs>>

Listen ==
  /\ AtStep("listen")
  /\ proc' = ListenStep(proc)
  /\ UNCHANGED <<rev, now, req, db, blobs>>

InitStartup ==
  /\ rev \in Revisions
  /\ now = 0
  /\ req = [r \in Requests |-> IdleRequest]
  /\ db \in InitialTables(rev)
  /\ blobs = {}
  /\ \E config \in [ConfigKeys -> ConfigSources] : proc = NewProcess(config)

NextStartup ==
  \/ UseCors
  \/ LoadDotenv
  \/ NewOpenAI
  \/ CreateClient
  \/ Listen

SpecStartup == InitStartup /\ [][NextStartup]_vars

(***************************************************************************)
(* Vocabulary of the properties.                                           *)
(***************************************************************************)
Submitted(r) == req[r].kind = "submitMember"
Done(r) == req[r].pc = "done"

\* the required fields of the schema of the revision
RequiredFields == IF rev = "part_001" THEN {"firstname", "lastname", "email"}
                  ELSE {"name", "email"}

EmptyAfterTrimming(v) == v = Undefined \/ Trim(v) = <<>>

\* a required field of the submission is absent or empty after trimming
LacksRequiredField(r) == \E f \in RequiredFields : EmptyAfterTrimming(req[r].body[f])

\* a submission with every required field
ValidSubmission(r) == Submitted(r) /\ ~LacksRequiredField(r)

Failed(outcome) == outcome \in {"error", "reject"}

\* the response is the success response / a 500
RespondedOk(r) == req[r].res.sent /\ req[r].res.status = 200 /\ req[r].res.ok
Responded500(r) == req[r].res.sent /\ req[r].res.status = 500

\* request r has its row in the table
HasRow(r) == req[r].row \in 1..Len(db)
RowOf(r) == db[req[r].row]

\* the required fields of the row of r are the trimmed submitted values
RequiredFieldsIntact(r) ==
  \A f \in RequiredFields : RowOf(r)[f] = Trim(req[r].body[f])

HasPrefix(path, prefix) ==
  Len(path) >= Len(prefix) /\ SubSeq(path, 1, Len(prefix)) = prefix

(***************************************************************************)
(* C1: a submission that lacks a required field (absent, or empty after    *)
(* trimming), with or without a photo, is answered 400 and nothing         *)
(* downstream runs: no image generation, no upload, no insert.             *)
(* server.js validates nothing, so the property fails there.               *)
(***************************************************************************)
C1_MissingRequiredFieldIs400 ==
  \A r \in Requests :
    (Submitted(r) /\ LacksRequiredField(r)) =>
      /\ Done(r)
      /\ req[r].res.sent /\ req[r].res.status = 400
      /\ req[r].calls = NoCalls
      /\ req[r].row = 0

(***************************************************************************)
(* C2: when image generation rejects for a valid submission with a photo,  *)
(* the insert is still issued, and once it is accepted the row has a null  *)
(* image_url and the trimmed required fields and the reply is the success  *)
(* reply.  part_002 has no catch around the image steps: it answers 500    *)
(* and inserts nothing.                                                    *)
(***************************************************************************)
C2_GenerationFailureStillInserts ==
  \A r \in Requests :
    (ValidSubmission(r) /\ req[r].file /\ req[r].outcome.generate = "reject") =>
      /\ req[r].calls.insert = 1
      /\ Responded500(r) => Failed(req[r].outcome.insert)
      /\ req[r].outcome.insert = "ok" =>
           /\ HasRow(r) /\ RespondedOk(r)
           /\ RowOf(r).image_url = Null
           /\ RequiredFieldsIntact(r)

(***************************************************************************)
(* C3: a rejected insert is answered 500 and never ok:true, whatever the   *)
(* image steps did; ok:true is sent only after the insert succeeded.       *)
(***************************************************************************)
C3_InsertRejectedIs500 ==
  \A r \in Requests :
    Submitted(r) =>
      /\ Failed(req[r].outcome.insert) =>
           /\ Responded500(r)
           /\ ~req[r].res.ok /\ "ok" \notin req[r].res.keys
           /\ req[r].row = 0
      /\ (req[r].res.sent /\ req[r].res.ok) =>
           /\ req[r].outcome.insert = "ok"
           /\ HasRow(r)

\* an insert is rejected after the generated image was stored
C3_Witness ==
  \E r \in Requests :
    /\ Submitted(r) /\ req[r].outcome.upload = "ok"
    /\ req[r].outcome.insert = "error" /\ Responded500(r)

(***************************************************************************)
(* C4: the insert is issued at most once per submission, exactly once when *)
(* the submission is valid, and only when every image call of the request  *)
(* that was issued has resolved.  In part_002 a failing image step ends    *)
(* the request without an insert.                                          *)
(***************************************************************************)
C4_InsertExactlyOnce ==
  \A r \in Requests :
    Submitted(r) =>
      /\ req[r].calls.insert <= 1
      /\ (ValidSubmission(r) /\ Done(r)) => req[r].calls.insert = 1
      /\ req[r].calls.insert > 0 =>
           \A step \in {"original", "generate", "upload"} :
             req[r].calls[step] > 0 => req[r].outcome[step] # ""

(***************************************************************************)
(* C5: when generation and the upload of the generated image both succeed  *)
(* for a valid submission, the inserted row's image_url is non-null, is    *)
(* the public URL of the very path that was stored, and that path is under *)
(* community/ in the neighbors bucket.                                     *)
(***************************************************************************)
C5_ImageUrlIsPublicUrlOfUpload ==
  \A r \in Requests :
    (/\ ValidSubmission(r) /\ req[r].file
     /\ req[r].outcome.generate = "ok" /\ req[r].outcome.upload = "ok"
     /\ HasRow(r)) =>
      /\ RowOf(r).image_url \notin {Null, Undefined}
      /\ \E path \in blobs :
           /\ path = req[r].filePath
           /\ RowOf(r).image_url = PublicUrl(Bucket, path)
           /\ HasPrefix(path, CommunityPrefix)

C5_Witness ==
  \E r \in Requests :
    /\ ValidSubmission(r) /\ req[r].file
    /\ req[r].outcome.generate = "ok" /\ req[r].outcome.upload = "ok"
    /\ HasRow(r) /\ RespondedOk(r)

(***************************************************************************)
(* C6: a failed upload of the generated image does not abort the request:  *)
(* the insert is issued, and once accepted the row has a null image_url    *)
(* and the reply is the success reply, not a 500.  part_002 answers 500.   *)
(***************************************************************************)
C6_UploadFailureStillInserts ==
  \A r \in Requests :
    (ValidSubmission(r) /\ Failed(req[r].outcome.upload)) =>
      /\ req[r].calls.insert = 1
      /\ Responded500(r) => Failed(req[r].outcome.insert)
      /\ req[r].outcome.insert = "ok" =>
           /\ HasRow(r) /\ RespondedOk(r)
           /\ RowOf(r).image_url = Null

(***************************************************************************)
(* C7: the original image and the generated image fail independently: a    *)
(* failed original upload is followed by the generation call (and by the   *)
(* upload of its result), and a failure of generation or of the generated  *)
(* upload after the original was stored leaves the row with its            *)
(* original_image_url and a null image_url.  In part_001 an original       *)
(* upload that rejects is caught by the catch around all image steps, and  *)
(* generation is never called.                                             *)
(***************************************************************************)
C7_ImageFailuresIndependent ==
  \A r \in Requests :
    ValidSubmission(r) =>
      /\ Failed(req[r].outcome.original) =>
           /\ req[r].calls.generate = 1
           /\ req[r].outcome.generate = "ok" => req[r].calls.upload = 1
      /\ (/\ req[r].outcome.original = "ok"
          /\ \/ req[r].outcome.generate \in {"nodata", "reject"}
             \/ Failed(req[r].outcome.upload)
          /\ req[r].outcome.insert = "ok") =>
           /\ HasRow(r)
           /\ RowOf(r).original_image_url = PublicUrl(Bucket, req[r].originalFilePath)
           /\ RowOf(r).image_url = Null

(***************************************************************************)
(* C8: a valid submission without a file calls neither image generation    *)
(* nor the object store, inserts one row whose image_url is null, and is   *)
(* answered {ok:true} with no image.  As stated it fails in server.js,     *)
(* whose reply carries image: {status: "none", url: null}.                 *)
(***************************************************************************)
NoFileNoImageSteps(r) ==
  /\ req[r].calls.generate = 0 /\ req[r].calls.original = 0 /\ req[r].calls.upload = 0
  /\ req[r].calls.insert = 1
  /\ req[r].outcome.insert = "ok" =>
       /\ HasRow(r) /\ RowOf(r).image_url = Null
       /\ RespondedOk(r)

C8_NoFileAnsweredOkWithoutImage ==
  \A r \in Requests :
    (ValidSubmission(r) /\ ~req[r].file) =>
      /\ NoFileNoImageSteps(r)
      /\ req[r].outcome.insert = "ok" => req[r].res.keys = {"ok"}

\* C8 as amended: the reply is {ok:true}, or in server.js
\* {ok:true, image:{status:"none", url:null}}
C8_NoFileAnsweredOk ==
  \A r \in Requests :
    (ValidSubmission(r) /\ ~req[r].file) =>
      /\ NoFileNoImageSteps(r)
      /\ req[r].outcome.insert = "ok" =>
           \/ req[r].res.keys = {"ok"}
           \/ /\ rev = "server.js"
              /\ req[r].res.keys = {"ok", "image"}
              /\ req[r].res.image = [status |-> "none", url |-> Null]

C8_Witness ==
  \E r \in Requests :
    /\ ValidSubmission(r) /\ ~req[r].file
    /\ HasRow(r) /\ RespondedOk(r) /\ RowOf(r).image_url = Null

(***************************************************************************)
(* C9: the body of the 500 after a persistence error does not depend on    *)
(* the error: two requests whose inserts failed with different errors get  *)
(* the same body, and the collaborator's message is not in it.  part_002   *)
(* answers { error: err.message }.                                         *)
(***************************************************************************)
C9_PersistenceErrorBodyIsGeneric ==
  \A r, s \in Requests :
    (/\ Submitted(r) /\ Failed(req[r].outcome.insert)
     /\ Submitted(s) /\ Failed(req[s].outcome.insert)) =>
      /\ req[r].res.error \notin ErrorMessages
      /\ req[r].res.keys = req[s].res.keys
      /\ req[r].res.error = req[s].res.error

(***************************************************************************)
(* C10: every listing GET /community returns is ordered by created_at,     *)
(* newest first (non-increasing).                                          *)
(***************************************************************************)
C10_ListingNewestFirst ==
  \A r \in Requests :
    (req[r].kind = "community" /\ req[r].res.sent /\ req[r].res.status = 200) =>
      \A i, j \in 1..Len(req[r].res.data) :
        i < j => req[r].res.data[i].created_at >= req[r].res.data[j].created_at

\* a listing of two rows inserted at different times
C10_Witness ==
  \E r \in Requests :
    /\ req[r].kind = "community" /\ req[r].res.sent /\ req[r].res.status = 200
    /\ Len(req[r].res.data) = 2
    /\ req[r].res.data[1].created_at > req[r].res.data[2].created_at

(***************************************************************************)
(* C11: GET /community returns every stored row, with no filter and no     *)
(* page: a listing is a success with an array (the empty array on an empty *)
(* table), it holds at least the rows the table had, and the row of every  *)
(* submission answered ok:true before the listing request arrived is in    *)
(* it.                                                                     *)
(***************************************************************************)
Listed(r) == req[r].kind = "community" /\ req[r].res.sent /\ req[r].res.status = 200

InListing(r, row) == \E i \in 1..Len(req[r].res.data) : req[r].res.data[i] = row

C11_ListingHoldsEveryRow ==
  \A r \in Requests :
    req[r].kind = "community" =>
      /\ req[r].outcome.select = "ok" =>
           /\ Listed(r) /\ req[r].res.shape = "array"
           /\ Len(db) = 0 => req[r].res.data = <<>>
           /\ \A k \in 1..Len(req[r].res.data) :
                \E i \in 1..Len(db) : req[r].res.data[k] = Select(rev, db[i])
           /\ \A i \in 1..Len(db) :
                (\A s \in Requests : req[s].row = i => s \in req[r].answered) =>
                  InListing(r, Select(rev, db[i]))
      /\ \A s \in req[r].answered :
           Listed(r) => HasRow(s) /\ InListing(r, Select(rev, RowOf(s)))

\* a listing that holds the row of a submission answered before it
C11_Witness ==
  \E r, s \in Requests :
    /\ Listed(r) /\ s \in req[r].answered
    /\ Len(req[r].res.data) = 2
    /\ InListing(r, Select(rev, RowOf(s)))

IdenticalNames(r, s) ==
  /\ Submitted(r) /\ Submitted(s)
  /\ \A f \in {"name", "firstname", "lastname"} : req[r].body[f] = req[s].body[f]

C13_IdenticalNamesDistinctPaths ==
  \A r, s \in Requests :
    (r # s /\ IdenticalNames(r, s)) =>
      /\ (req[r].calls.upload > 0 /\ req[s].calls.upload > 0) =>
           req[r].filePath # req[s].filePath
      /\ (req[r].calls.original > 0 /\ req[s].calls.original > 0) =>
           req[r].originalFilePath # req[s].originalFilePath

(***************************************************************************)
(* C14: within one request the steps run one after the other: a request    *)
(* refused by validation has called nothing; at most one collaborator call *)
(* is awaited at a time, and it is the one the handler is stopped at; the  *)
(* generation starts after the original upload resolved, the upload after  *)
(* the generation resolved with an image, the insert after every image     *)
(* call resolved; a response is sent only when no call is awaited, and the *)
(* success response only after the insert resolved.                        *)
(***************************************************************************)
Steps == {"original", "generate", "upload", "insert"}
Started(r, step) == req[r].calls[step] > 0
Resolved(r, step) == Started(r, step) /\ req[r].outcome[step] # ""
Awaited(r, step) == Started(r, step) /\ req[r].outcome[step] = ""
AwaitOf(step) ==
  CASE step = "original" -> "await_original_upload"
    [] step = "generate" -> "await_generate"
    [] step = "upload" -> "await_upload"
    [] OTHER -> "await_insert"

C14_StepsStrictlySequential ==
  \A r \in Requests :
    Submitted(r) =>
      /\ (req[r].res.sent /\ req[r].res.status = 400) => \A x \in Steps : ~Started(r, x)
      /\ \A x, y \in Steps : (Awaited(r, x) /\ Awaited(r, y)) => x = y
      /\ \A x \in Steps : Awaited(r, x) <=> req[r].pc = AwaitOf(x)
      /\ Started(r, "original") => rev = "part_001"
      /\ Started(r, "generate") =>
           (rev = "part_001" => Resolved(r, "original"))
      /\ Started(r, "upload") =>
           Resolved(r, "generate") /\ req[r].outcome.generate = "ok"
      /\ Started(r, "insert") =>
           \A x \in Steps \ {"insert"} : Started(r, x) => Resolved(r, x)
      /\ req[r].res.sent => \A x \in Steps : ~Awaited(r, x)
      /\ RespondedOk(r) => Resolved(r, "insert") /\ req[r].outcome.insert = "ok"

C14_Witness ==
  \E r \in Requests :
    /\ Submitted(r) /\ rev = "part_001" /\ RespondedOk(r)
    /\ \A x \in Steps : Resolved(r, x) /\ req[r].outcome[x] = "ok"
    /\ \E s \in Requests : s # r /\ Submitted(s) /\ \E x \in Steps : Awaited(s, x)

(***************************************************************************)
(* C15: getPrompt never fails and gives the same prompt for the same       *)
(* activity; for an activity that is absent or empty after trimming it     *)
(* gives the baseline template; any other activity stands verbatim, as     *)
(* trimmed, inside the extended template.  (server.js and part_001 define  *)
(* getPrompt; part_002 has no such function.)                              *)
(***************************************************************************)
Contains(s, sub) ==
  \E i \in 0..(Len(s) - Len(sub)) : SubSeq(s, i + 1, i + Len(sub)) = sub

HasGetPrompt == rev \in {"server.js", "part_001"}

NoActivity(r) ==
  req[r].body.activity = Undefined \/ Trim(req[r].body.activity) = <<>>

C15_GetPromptBaselineOrVerbatim ==
  HasGetPrompt =>
    \A r \in Requests :
      Started(r, "generate") =>
        /\ req[r].prompt # <<>>
        /\ NoActivity(r) => req[r].prompt = BaselinePrompt(rev)
        /\ ~NoActivity(r) =>
             /\ Contains(req[r].prompt, Trim(req[r].body.activity))
             /\ req[r].prompt =
                  ExtendedHead(rev) \o Trim(req[r].body.activity) \o ExtendedTail(rev)
             /\ req[r].prompt # BaselinePrompt(rev)
        /\ \A s \in Requests :
             (Started(s, "generate") /\ req[s].body.activity = req[r].body.activity) =>
               req[s].prompt = req[r].prompt

C15_Witness ==
  \E r, s \in Requests :
    /\ HasGetPrompt
    /\ Started(r, "generate") /\ Started(s, "generate")
    /\ req[r].body.activity = ActivitySki
    /\ Contains(req[r].prompt, <<"s", "k", "i">>)
    /\ req[s].body.activity = Blank /\ req[s].prompt = BaselinePrompt(rev)

(***************************************************************************)
(* C16: the row of a submission holds the required fields trimmed, and for *)
(* location and activity the trimmed value, or null when the field is      *)
(* absent or empty after trimming: never the empty string and never no     *)
(* value at all.                                                           *)
(***************************************************************************)
OptionalFields == {"location", "activity"}

StoredOptional(v) ==
  IF v = Undefined \/ Trim(v) = <<>> THEN Null ELSE Trim(v)

C16_RowCarriesTrimmedFieldsOrNull ==
  \A r \in Requests :
    (Submitted(r) /\ HasRow(r)) =>
      /\ RequiredFieldsIntact(r)
      /\ \A f \in OptionalFields :
           /\ RowOf(r)[f] # <<>>
           /\ RowOf(r)[f] # Undefined
           /\ RowOf(r)[f] = StoredOptional(req[r].body[f])

(***************************************************************************)
(* C17: every step leaves the rows already in community_members in place   *)
(* and unchanged, and a step of a GET /community or GET /health request    *)
(* changes neither the table nor the bucket.                               *)
(***************************************************************************)
RowsKept ==
  /\ Len(db') >= Len(db)
  /\ \A i \in 1..Len(db) : db'[i] = db[i]

StepOfGet ==
  \E r \in Requests : req'[r] # req[r] /\ req'[r].kind \in {"community", "health"}

C17_RecordsOnlyCreated ==
  [][RowsKept /\ (StepOfGet => (db' = db /\ blobs' = blobs))]_vars

C17_Witness ==
  \E r, s \in Requests :
    /\ Submitted(r) /\ HasRow(r) /\ req[r].row = 2 /\ blobs # {}
    /\ Listed(s) /\ Len(req[s].res.data) = 2

(***************************************************************************)
(* C18: whatever the interleaving, the row and the response of a           *)
(* submission are what its own fields, its own file and the outcomes of    *)
(* its own collaborator calls determine: the columns are its own trimmed   *)
(* fields, the image URLs are the public URLs of the paths of its own      *)
(* successful uploads (null otherwise), and the response reports its own   *)
(* validation, its own image steps and its own insert.                     *)
(***************************************************************************)
OwnImageUrl(r) ==
  IF req[r].outcome.upload = "ok" THEN PublicUrl(Bucket, req[r].filePath) ELSE Null

OwnOriginalImageUrl(r) ==
  IF req[r].outcome.original = "ok" THEN PublicUrl(Bucket, req[r].originalFilePath)
  ELSE Null

OwnImageStatus(r) ==
  IF ~req[r].file THEN "none"
  ELSE IF req[r].outcome.upload = "ok" THEN "ready" ELSE "failed"

OwnColumns(r) ==
  IF rev = "part_001"
  THEN /\ RowOf(r).firstname = OptionalTrim(req[r].body.firstname)
       /\ RowOf(r).lastname = OptionalTrim(req[r].body.lastname)
       /\ RowOf(r).location = StoredOptional(req[r].body.location)
       /\ RowOf(r).activity = StoredOptional(req[r].body.activity)
       /\ RowOf(r).original_image_url = OwnOriginalImageUrl(r)
  ELSE RowOf(r).name = OptionalTrim(req[r].body.name)

C18_RequestsIsolated ==
  \A r \in Requests :
    Submitted(r) =>
      /\ HasRow(r) =>
           /\ \A s \in Requests : (s # r /\ HasRow(s)) => req[s].row # req[r].row
           /\ OwnColumns(r)
           /\ RowOf(r).email = OptionalTrim(req[r].body.email)
           /\ RowOf(r).image_url = OwnImageUrl(r)
           /\ req[r].outcome.insert = "ok"
      /\ (Started(r, "upload") /\ rev # "part_001") =>
           Contains(req[r].filePath, Slug(OptionalTrim(req[r].body.name)))
      /\ req[r].res.sent =>
           /\ req[r].res.status = 400 <=> MissingRequired(rev, req[r])
           /\ req[r].res.status = 200 <=> (HasRow(r) /\ req[r].res.ok)
           /\ req[r].res.status = 500 <=>
                \/ Failed(req[r].outcome.insert)
                \/ /\ rev = "part_002"
                   /\ \/ req[r].outcome.generate \in {"nodata", "reject"}
                      \/ Failed(req[r].outcome.upload)
           /\ (rev = "server.js" /\ RespondedOk(r)) =>
                /\ req[r].res.image.url = OwnImageUrl(r)
                /\ req[r].res.image.status = OwnImageStatus(r)

C18_Witness ==
  /\ Submitted(1) /\ Submitted(2)
  /\ RespondedOk(1) /\ RespondedOk(2)
  /\ req[1].row = 2 /\ req[2].row = 1
  /\ RowOf(1).image_url # Null /\ RowOf(2).image_url # Null
  /\ RowOf(1).image_url # RowOf(2).image_url

(***************************************************************************)
(* C19: a process that listens for requests has every configuration value  *)
(* defined, in its environment or in .env; and no value is read before     *)
(* dotenv has loaded .env, so that a value defined there is the value the  *)
(* component gets.                                                         *)
(***************************************************************************)
Configured(k) == proc.config[k] # "absent"

C19_MissingConfigFailsAtStartup ==
  /\ proc.state = "listening" => \A k \in ConfigKeys : Configured(k)
  /\ proc.early = {}
  /\ (proc.corsOrigin = "undefined") => ~Configured("CORS_ORIGIN")

(***************************************************************************)
(* C20: no step removes a path from the bucket; when the insert of a       *)
(* request failed after its generated image or its original photo was      *)
(* stored, the request is answered 500, the stored paths are still in the  *)
(* bucket and no row of the table holds their public URL.                  *)
(***************************************************************************)
StoredPaths(r) ==
  (IF req[r].outcome.upload = "ok" THEN {req[r].filePath} ELSE {})
    \cup (IF req[r].outcome.original = "ok" THEN {req[r].originalFilePath} ELSE {})

Referenced(path) ==
  \E i \in 1..Len(db) :
    PublicUrl(Bucket, path) \in {db[i].image_url, db[i].original_image_url}

OrphanedBlobsStay ==
  \A r \in Requests :
    (Submitted(r) /\ Failed(req[r].outcome.insert) /\ StoredPaths(r) # {}) =>
      /\ Responded500(r) /\ req[r].res.sends = 1
      /\ ~HasRow(r)
      /\ \A path \in StoredPaths(r) : path \in blobs /\ ~Referenced(path)

C20_BlobNeverRemoved ==
  []OrphanedBlobsStay /\ [][blobs \subseteq blobs']_vars

C20_Witness ==
  \E r \in Requests :
    /\ Submitted(r) /\ Failed(req[r].outcome.insert)
    /\ req[r].outcome.upload = "ok" /\ req[r].filePath \in blobs
    /\ Responded500(r)
    /\ \E s \in Requests : s # r /\ HasRow(s) /\ RowOf(s).image_url # Null

(***************************************************************************)
(* C21: within one submission openai.images.edit, the upload of the        *)
(* original photo, the upload of the generated image and the insert are    *)
(* each called at most once, however the call ends; a request that is not  *)
(* a submission calls none of them.                                        *)
(***************************************************************************)
C21_NoRetry ==
  \A r \in Requests :
    /\ \A x \in Steps : req[r].calls[x] <= 1
    /\ ~Submitted(r) => \A x \in Steps : req[r].calls[x] = 0
    /\ req[r].calls.select <= 1

C21_Witness ==
  \E r, s \in Requests :
    /\ Submitted(r) /\ Done(r)
    /\ req[r].outcome.generate = "ok" /\ Failed(req[r].outcome.upload)
    /\ Failed(req[r].outcome.insert)
    /\ \A x \in {"generate", "upload", "insert"} : req[r].calls[x] = 1
    /\ Submitted(s) /\ Done(s) /\ req[s].outcome.generate \in {"nodata", "reject"}
    /\ req[s].calls.generate = 1

(***************************************************************************)
(* C22: when openai.images.edit resolves without image data, no upload of  *)
(* a generated image is called, imageUrl stays null, the insert is called, *)
(* and once it is accepted the row has a null image_url and the request is *)
(* answered with success.                                                  *)
(***************************************************************************)
C22_NoImageDataStillInserts ==
  \A r \in Requests :
    (Submitted(r) /\ req[r].outcome.generate = "nodata") =>
      /\ req[r].calls.upload = 0
      /\ req[r].imageUrl = Null
      /\ req[r].calls.insert = 1
      /\ Responded500(r) => Failed(req[r].outcome.insert)
      /\ req[r].outcome.insert = "ok" =>
           HasRow(r) /\ RespondedOk(r) /\ RowOf(r).image_url = Null

(***************************************************************************)
(* C23: the slug in a storage path holds only a-z, 0-9 and "-", never two  *)
(* "-" in a row, and is the lowercased name with every maximal run of      *)
(* other characters replaced by one "-" (the name being the trimmed name,  *)
(* or in part_001 the trimmed first and last names joined by "-").         *)
(***************************************************************************)
SlugInput(r) ==
  ToLowerCase(IF rev = "part_001"
              THEN Trim(req[r].body.firstname) \o <<"-">> \o Trim(req[r].body.lastname)
              ELSE Trim(req[r].body.name))

\* the positions of s that give a character of the slug: a character of
\* [a-z0-9], or the first character of a run of others
Kept(s) ==
  {i \in 1..Len(s) :
     \/ IsSlugChar(s[i])
     \/ IF i = 1 THEN TRUE ELSE IsSlugChar(s[i - 1])}

KthKept(s, k) ==
  CHOOSE i \in Kept(s) : Cardinality({j \in Kept(s) : j <= i}) = k

RunsReplaced(s, slug) ==
  /\ Len(slug) = Cardinality(Kept(s))
  /\ \A k \in 1..Len(slug) :
       slug[k] = IF IsSlugChar(s[KthKept(s, k)]) THEN s[KthKept(s, k)] ELSE "-"

UrlSafe(slug) ==
  /\ \A k \in 1..Len(slug) : IsSlugChar(slug[k]) \/ slug[k] = "-"
  /\ \A k \in 1..(Len(slug) - 1) : ~(slug[k] = "-" /\ slug[k + 1] = "-")

EndsWith(path, suffix) ==
  /\ Len(path) >= Len(suffix)
  /\ SubSeq(path, Len(path) - Len(suffix) + 1, Len(path)) = suffix

SlugInPath(r, path) ==
  IF rev = "server.js"
  THEN HasPrefix(path, CommunityPrefix \o req[r].slug \o <<"-">>)
  ELSE EndsWith(path, <<"-">> \o req[r].slug \o PngSuffix)

C23_SlugUrlSafe ==
  \A r \in Requests :
    /\ Started(r, "upload") =>
         /\ UrlSafe(req[r].slug)
         /\ RunsReplaced(SlugInput(r), req[r].slug)
         /\ SlugInPath(r, req[r].filePath)
    /\ Started(r, "original") =>
         /\ UrlSafe(req[r].slug)
         /\ RunsReplaced(SlugInput(r), req[r].slug)
         /\ SlugInPath(r, req[r].originalFilePath)

C23_Witness ==
  \E r \in Requests :
    /\ Started(r, "upload") /\ rev # "part_001"
    /\ req[r].body.name = <<"A", ".", " ">>
    /\ req[r].slug = <<"a", "-">>
    /\ req[r].outcome.upload = "ok"

(***************************************************************************)
(* C24: a handler of POST /submitMember or GET /community that has run to  *)
(* its end has sent a response: it waits for a collaborator call or it has *)
(* answered, whatever way its calls ended.                                 *)
(***************************************************************************)
Waiting(r) ==
  req[r].pc \in {"await_original_upload", "await_generate", "await_upload", "await_insert",
                 "await_select"}

C24_HandlerEndsWithResponse ==
  \A r \in Requests :
    req[r].kind \in {"submitMember", "community"} =>
      Waiting(r) \/ req[r].res.sent

(***************************************************************************)
(* C25: a submission is answered at most once: when its handler has ended, *)
(* exactly one response was sent, with status 400, 200 or 500; a handler   *)
(* that has answered has ended; and no step changes a response that was    *)
(* sent or makes the request call a collaborator again.                    *)
(***************************************************************************)
AnsweredOnce ==
  \A r \in Requests :
    Submitted(r) =>
      /\ req[r].res.sends <= 1
      /\ req[r].res.sent <=> req[r].res.sends = 1
      /\ req[r].res.sent <=> Done(r)
      /\ req[r].res.sent =>
           /\ req[r].res.status \in {400, 200, 500}
           /\ req[r].res.status = 200 <=> req[r].res.ok
           /\ req[r].res.status \in {400, 500} <=> req[r].res.error # ""

NothingAfterResponse ==
  \A r \in Requests :
    (Submitted(r) /\ req[r].res.sent) => req'[r] = req[r]

C25_AnsweredAtMostOnce ==
  []AnsweredOnce /\ [][NothingAfterResponse]_vars

C25_Witness ==
  \E r, s \in Requests :
    /\ Submitted(r) /\ Submitted(s)
    /\ req[r].res.status = 400 /\ req[r].res.sends = 1
    /\ req[s].res.status = 500 /\ req[s].res.sends = 1 /\ Started(s, "upload")

(***************************************************************************)
(* C26: in a success response that carries image (server.js sends it with  *)
(* every success), status is "none" exactly when no file was attached,     *)
(* "ready" exactly when generation and upload succeeded, "failed" exactly  *)
(* when a file was attached and an image step failed, never "processing";  *)
(* url is not null exactly when status is "ready", and url is the          *)
(* image_url of the inserted row.                                          *)
(***************************************************************************)
ImageStepsSucceeded(r) ==
  req[r].outcome.generate = "ok" /\ req[r].outcome.upload = "ok"

C26_ImageStatusConsistent ==
  \A r \in Requests :
    (Submitted(r) /\ RespondedOk(r)) =>
      /\ rev = "server.js" <=> "image" \in req[r].res.keys
      /\ "image" \in req[r].res.keys =>
           /\ req[r].res.image.status \in {"none", "ready", "failed"}
           /\ req[r].res.image.status = "none" <=> ~req[r].file
           /\ req[r].res.image.status = "ready" <=> (req[r].file /\ ImageStepsSucceeded(r))
           /\ req[r].res.image.status = "failed" <=> (req[r].file /\ ~ImageStepsSucceeded(r))
           /\ req[r].res.image.url # Null <=> req[r].res.image.status = "ready"
           /\ HasRow(r) /\ req[r].res.image.url = RowOf(r).image_url

C26_Witness ==
  \E r, s \in Requests :
    /\ rev = "server.js"
    /\ Submitted(r) /\ RespondedOk(r) /\ req[r].res.image.status = "ready"
    /\ req[r].res.image.url = RowOf(r).image_url /\ RowOf(r).image_url # Null
    /\ Submitted(s) /\ RespondedOk(s) /\ req[s].res.image.status = "failed"
    /\ RowOf(s).image_url = Null

====
